---------------------------- MODULE Spec2Model ----------------------------
(***************************************************************************)
(* Model of the DHT node of src/src/lib.rs (struct DhtNode and its         *)
(* Subscriber implementation): the routing table (buckets, known_peers),   *)
(* the storage map, the inbound handlers that read and write them, and the *)
(* outbound operations: find_value, store_value and the single queries.    *)
(*                                                                         *)
(* Key-ids are 32-byte arrays.  The state holds key-id handles (Arc<KeyId>)*)
(* by name; KeyData gives the bytes behind a handle (KeyId::data()).       *)
(***************************************************************************)
EXTENDS Integers, Sequences, FiniteSets, TLC

VARIABLES
    buckets,      \* DhtNode.buckets: bucket index -> (key-id -> Node)
    known_peers,  \* DhtNode.known_peers: the slots of the AddressCache
    task,         \* per concurrent add_peer call: where it is and what it holds
    storage,      \* DhtNode.storage: DHT key hash -> DhtValue
    now,          \* the wall clock read by now(), in seconds
    reply,        \* the result of the inbound query handled last
    calc,         \* operands and result of the stand-alone bucket computation
    fv,           \* the find_value session: its position, wait-group and results
    sent,         \* the outbound query handed to the transport last
    sv            \* the store_value session: its position, cursor and wait-group

vars ==
    <<buckets, known_peers, task, storage, now, reply, calc, fv, sent, sv>>

(***************************************************************************)
(* Bounds of the model.                                                    *)
(***************************************************************************)
\* greatest descriptor version offered to add_peer (versions are i32)
MaxVersion == 1
\* capacity of the known-peer cache (AddressCache::with_limit(MAX_PEERS))
CacheLimit == 2
\* greatest k of an inbound FindNode / FindValue
MaxK == 3
\* last second the clock reaches
MaxNow == 3
\* greatest ttl carried by an inbound Store
MaxTtl == 4
\* greatest number of peers the known-peer cache holds during a find_value
\* session
MaxPeers == 6
\* greatest number of peers the known-peer cache holds while values are stored
MaxStorePeers == 3

(***************************************************************************)
(* Program constants.                                                      *)
(***************************************************************************)
\* type DhtKeyId = [u8; 32]
KeyLen == 32

\* const MAX_TASKS: usize
MAX_TASKS == 5

\* the table with a wrong count for the nibble 3
BITS_WrongEntry == <<4, 3, 2, 1, 1, 1, 1, 1, 0, 0, 0, 0, 0, 0, 0, 0>>

\* const BITS: [u8; 16]; BITS[n] is the number of leading zero bits of the
\* nibble n (Rust index n is TLA+ index n + 1)
BITS == <<4, 3, 2, 2, 1, 1, 1, 1, 0, 0, 0, 0, 0, 0, 0, 0>>

Procs == {1, 2}

None == "none"

EmptyMap == [x \in {} |-> 0]

MapPut(f, k, v) == [x \in (DOMAIN f) \cup {k} |-> IF x = k THEN v ELSE f[x]]

(***************************************************************************)
(* u8 arithmetic.                                                          *)
(***************************************************************************)
RECURSIVE XorN(_, _, _)
XorN(a, b, n) ==
    IF n = 0 THEN 0
    ELSE (((a % 2) + (b % 2)) % 2) + 2 * XorN(a \div 2, b \div 2, n - 1)

\* a ^ b for every pair of u8 values
XorTable == [a \in 0..255 |-> [b \in 0..255 |-> XorN(a, b, 8)]]

\* a ^ b on u8
Xor8(a, b) == XorTable[a][b]

RECURSIVE AndN(_, _, _)
AndN(a, b, n) ==
    IF n = 0 THEN 0
    ELSE ((a % 2) * (b % 2)) + 2 * AndN(a \div 2, b \div 2, n - 1)

\* a & 0x0F and a & 0xF0 for every u8 value
AndTable == [m \in {15, 240} |-> [a \in 0..255 |-> AndN(a, m, 8)]]

\* a & b on u8, b one of the masks 0x0F and 0xF0
And8(a, b) == AndTable[b][a]

RECURSIVE Pow2(_)
Pow2(n) == IF n = 0 THEN 1 ELSE 2 * Pow2(n - 1)

\* x << n on u8 (bits shifted out are lost)
Shl8(x, n) == (x * Pow2(n)) % 256

\* x >> n on u8
Shr8(x, n) == x \div Pow2(n)

\* u8::saturating_add
SatAdd8(a, b) == IF a + b > 255 THEN 255 ELSE a + b

(***************************************************************************)
(* Key-ids.                                                                *)
(***************************************************************************)
\* the bytes of the local node key
LocalData == [i \in 1..KeyLen |-> (i * 37 + 11) % 256]

\* a 32-byte pattern with nz zero bytes, then byte x, then a non-zero tail
Pattern(nz, x, tail) ==
    [i \in 1..KeyLen |-> IF i <= nz THEN 0
                         ELSE IF i = nz + 1 THEN x
                         ELSE tail]

XorKey(a, b) == [i \in 1..KeyLen |-> Xor8(a[i], b[i])]

LocalId == "local"

\* the peers: their key-ids differ from the local one first at bit 3, 5, 5, 17
PeerIds == {"p1", "p2", "p3", "p4"}

KeyIds == PeerIds \cup {LocalId}

KeyData ==
    [k \in KeyIds |->
        CASE k = "local" -> LocalData
          [] k = "p1" -> XorKey(LocalData, Pattern(0, 16, 0))
          [] k = "p2" -> XorKey(LocalData, Pattern(0, 4, 0))
          [] k = "p3" -> XorKey(LocalData, Pattern(0, 5, 0))
          [] k = "p4" -> XorKey(LocalData, Pattern(2, 64, 170))]

\* bit n (0 = most significant bit of byte 0) of a key
KeyBit(key, n) == (key[(n \div 8) + 1] \div Pow2(7 - (n % 8))) % 2

SetMin(S) == CHOOSE x \in S : \A y \in S : x <= y

\* number of leading zero bits of a XOR b, counted bit by bit
LeadingZeroBits(a, b) ==
    LET diff == {n \in 0..(8 * KeyLen - 1) : KeyBit(a, n) # KeyBit(b, n)}
    IN IF diff = {} THEN 8 * KeyLen ELSE SetMin(diff)

\* number of leading zero bits of local XOR k, for every key-id handle k
LocalLeadingZeroBits ==
    [k \in KeyIds |-> LeadingZeroBits(LocalData, KeyData[k])]

(***************************************************************************)
(* add_peer: the bucket index (lines 137-152).  dist is a u8; overflow     *)
(* records whether an addition left 0..255.                                *)
(***************************************************************************)
RECURSIVE DistLoop(_, _, _, _, _)
DistLoop(key1, key2, i, dist, ovf) ==
    IF i > KeyLen THEN [dist |-> dist, overflow |-> ovf]
    ELSE LET x == Xor8(key1[i], key2[i]) IN
         IF x = 0
         THEN DistLoop(key1, key2, i + 1, (dist + 8) % 256,
                       ovf \/ (dist + 8 > 255))
         ELSE LET add == IF And8(x, 240) = 0
                         THEN BITS[And8(x, 15) + 1] + 4
                         ELSE BITS[Shr8(x, 4) + 1]
              IN [dist |-> (dist + add) % 256,
                  overflow |-> ovf \/ (dist + add > 255)]

\* the byte loop started one byte late
AddPeerDist_SkipFirstByte(key1, key2) == DistLoop(key1, key2, 2, 0, FALSE)

AddPeerDist(key1, key2) == DistLoop(key1, key2, 1, 0, FALSE)

(***************************************************************************)
(* Peer descriptors (ton::dht::node::Node).  sig tells whether the         *)
(* signature verifies the descriptor under its id; addr whether            *)
(* parse_address_list accepts the address list.                            *)
(***************************************************************************)
Versions == {-1} \cup (1..MaxVersion)

\* the descriptors offered to add_peer: every key-id (the local one too) at
\* every version, well formed, and descriptors that fail a check
PeerNodes ==
    [id : KeyIds, version : Versions, sig : {"valid"}, addr : {"ok"}]
    \cup [id : {"p1"}, version : {MaxVersion}, sig : {"bad"}, addr : {"ok"}]
    \cup [id : {"p2"}, version : {MaxVersion}, sig : {"valid"},
          addr : {"bad"}]

\* verify_other_node
VerifyOtherNode(node) == node.sig = "valid"

\* parse_address_list(&peer.addr_list)
ParseAddressListOk(node) == node.addr = "ok"

\* a transport registry that takes every key, the local one too
AdnlAddPeer_TakesLocal(local, node) == node.id

\* self.adnl.add_peer(self.node_key.id(), addr, key): the transport's peer
\* registry declines the local key itself and returns the key-id otherwise
AdnlAddPeer(local, node) == IF node.id = local THEN None ELSE node.id

\* known_peers.put(id): FALSE for a key-id already in the cache; a new key-id
\* takes a free slot, or the slot of an older entry once the limit is reached
CachePut(cache, id) ==
    IF \E i \in 1..Len(cache) : cache[i] = id
    THEN {[cache |-> cache, added |-> FALSE]}
    ELSE IF Len(cache) < CacheLimit
    THEN {[cache |-> Append(cache, id), added |-> TRUE]}
    ELSE {[cache |-> [cache EXCEPT ![i] = id], added |-> TRUE] :
             i \in 1..Len(cache)}

\* update_peer without the version comparison
UpdatePeer_AlwaysReplace(bucket, id, peer) == MapPut(bucket, id, peer)

\* the update_peer closure (lines 154-165) applied to one bucket
UpdatePeer(bucket, id, peer) ==
    IF id \in DOMAIN bucket
    THEN IF bucket[id].version < peer.version
         THEN [bucket EXCEPT ![id] = peer]
         ELSE bucket
    ELSE MapPut(bucket, id, peer)

\* match self.buckets.entry(dist) (lines 167-175)
BucketsUpdate(bks, dist, id, peer) ==
    IF dist \in DOMAIN bks
    THEN [bks EXCEPT ![dist] = UpdatePeer(bks[dist], id, peer)]
    ELSE MapPut(bks, dist, UpdatePeer(EmptyMap, id, peer))

Idle == [pc |-> "idle"]

\* a caller enters add_peer(peer)
AddPeerCall(p, peer) ==
    /\ task[p].pc = "idle"
    /\ task' = [task EXCEPT ![p] = [pc |-> "begin", peer |-> peer]]
    /\ UNCHANGED <<buckets, known_peers, storage, now, reply, calc, fv, sent, sv>>

\* add_peer up to and including known_peers.put (lines 122-136): it returns
\* here unless the key-id is new to the cache
AddPeerBegin(p) ==
    /\ task[p].pc = "begin"
    /\ LET peer == task[p].peer IN
       IF ~VerifyOtherNode(peer)
       THEN /\ task' = [task EXCEPT ![p] = Idle]
            /\ UNCHANGED known_peers
       ELSE IF ~ParseAddressListOk(peer)
       THEN /\ task' = [task EXCEPT ![p] = Idle]
            /\ UNCHANGED known_peers
       ELSE LET ret == AdnlAddPeer(LocalId, peer) IN
            IF ret = None
            THEN /\ task' = [task EXCEPT ![p] = Idle]
                 /\ UNCHANGED known_peers
            ELSE \E r \in CachePut(known_peers, ret) :
                    /\ known_peers' = r.cache
                    /\ task' = [task EXCEPT ![p] =
                                  IF r.added
                                  THEN [pc |-> "update", peer |-> peer,
                                        ret |-> ret]
                                  ELSE Idle]
    /\ UNCHANGED <<buckets, storage, now, reply, calc, fv, sent, sv>>

\* add_peer from the bucket computation to the return (lines 137-177)
AddPeerUpdate(p) ==
    /\ task[p].pc = "update"
    /\ LET ret == task[p].ret
           d == AddPeerDist(KeyData[LocalId], KeyData[ret]).dist
       IN buckets' = BucketsUpdate(buckets, d, ret, task[p].peer)
    /\ task' = [task EXCEPT ![p] = Idle]
    /\ UNCHANGED <<known_peers, storage, now, reply, calc, fv, sent, sv>>

(***************************************************************************)
(* process_find_node (lines 613-652).  A bucket is a DashMap: its          *)
(* iteration order is not fixed, so the walk yields one result per order.  *)
(***************************************************************************)
\* all the orders in which the nodes of a bucket can be iterated
BucketOrders(bucket) ==
    {o \in [1..Cardinality(DOMAIN bucket) -> DOMAIN bucket] :
        \A i, j \in DOMAIN o : i # j => o[i] # o[j]}

\* for node in bucket.value().iter() { ret.push(..); if ret.len() == k break }
RECURSIVE PushNodes(_, _, _, _, _)
PushNodes(bucket, order, i, ret, k) ==
    IF i > Len(order) THEN ret
    ELSE LET r == Append(ret, bucket[order[i]]) IN
         IF Len(r) = k THEN r ELSE PushNodes(bucket, order, i + 1, r, k)

\* the while xor != 0 loop on one byte; yields the set of possible ret
RECURSIVE FindNodeByte(_, _, _, _, _)
FindNodeByte(bks, xor, subdist, ret, k) ==
    IF xor = 0 THEN {ret}
    ELSE IF And8(xor, 240) = 0
    THEN IF Len(ret) = k THEN {ret}
         ELSE FindNodeByte(bks, Shl8(xor, 4), SatAdd8(subdist, 4), ret, k)
    ELSE LET shift == BITS[Shr8(xor, 4) + 1]
             sd == SatAdd8(subdist, shift)
             rets == IF sd \in DOMAIN bks
                     THEN {PushNodes(bks[sd], o, 1, ret, k) :
                              o \in BucketOrders(bks[sd])}
                     ELSE {ret}
         IN UNION {IF Len(r) = k THEN {r}
                   ELSE FindNodeByte(bks, Shl8(xor, shift + 1),
                                     SatAdd8(sd, 1), r, k) : r \in rets}

\* the for i in 0..32 loop; yields the set of possible ret
RECURSIVE FindNodeLoop(_, _, _, _, _, _, _)
FindNodeLoop(bks, key1, key2, i, dist, ret, k) ==
    IF i > KeyLen THEN {ret}
    ELSE IF Len(ret) = k THEN {ret}
    ELSE UNION {FindNodeLoop(bks, key1, key2, i + 1, SatAdd8(dist, 8), r, k) :
                   r \in FindNodeByte(bks, Xor8(key1[i], key2[i]), dist,
                                      ret, k)}

\* the results process_find_node can return for FindNode{key, k}
FindNodeResults(bks, key, k) ==
    FindNodeLoop(bks, KeyData[LocalId], key, 1, 0, <<>>, k)

\* the keys asked for by inbound FindNode queries: the local key-id, the
\* key-id of a peer, and a key that differs from the local one at bits
\* 3, 5 and 17
FindNodeKeys ==
    {LocalData, KeyData["p2"],
     XorKey(LocalData, [i \in 1..KeyLen |-> IF i = 1 THEN 20
                                            ELSE IF i = 3 THEN 64 ELSE 0])}

\* try_consume_query on FindNode{key, k}
ProcessFindNode(key, k) ==
    /\ \E r \in FindNodeResults(buckets, key, k) :
          reply' = [kind |-> "Nodes", nodes |-> r]
    /\ UNCHANGED <<buckets, known_peers, task, storage, now, calc, fv, sent, sv>>

(***************************************************************************)
(* get_known_nodes (lines 347-363): buckets 0..=255 in ascending order,    *)
(* each in its iteration order, until limit nodes are collected.           *)
(***************************************************************************)
RECURSIVE KnownNodesFrom(_, _, _, _)
KnownNodesFrom(bks, i, ret, limit) ==
    LET ds == {d \in DOMAIN bks : d >= i} IN
    IF ds = {} THEN {ret}
    ELSE LET d == SetMin(ds) IN
         UNION {IF Len(r) = limit THEN {r}
                ELSE KnownNodesFrom(bks, d + 1, r, limit) :
                   r \in {IF DOMAIN bks[d] = {} THEN ret
                          ELSE PushNodes(bks[d], o, 1, ret, limit) :
                             o \in BucketOrders(bks[d])}}

\* the lists get_known_nodes(limit) can return, limit > 0
GetKnownNodes(bks, limit) == KnownNodesFrom(bks, 0, <<>>, limit)

(***************************************************************************)
(* DHT keys and values.                                                    *)
(*   DhtKey            [id, idx, name]                                     *)
(*   DhtKeyDescription [id (a public key), key, signature, update_rule]    *)
(*   DhtValue          [key, value, ttl, signature]                        *)
(* A signature is "valid" when it verifies the signed object under the     *)
(* public key of the key description, "bad" when it is some other          *)
(* non-empty byte string, and "empty".                                     *)
(***************************************************************************)
PubEd == [type |-> "Ed25519", name |-> "E1"]

PubOverlay == [type |-> "Overlay", name |-> "O1"]

\* the key-id (short id) of a public key: the hash of its descriptor
ShortId(pub) == IF pub.type = "Ed25519" THEN 1 ELSE 2

\* dht_key_from_key_id (lines 505-511)
DhtKeyFromKeyId(id, name) == [id |-> id, idx |-> 0, name |-> name]

\* hash(key): the 32-byte storage key of a DhtKey, one per DhtKey
Hash(key) ==
    key.id * 100 + key.idx * 10 + (IF key.name = "address" THEN 1 ELSE 2)

KeyAddress == DhtKeyFromKeyId(ShortId(PubEd), "address")

KeyNodes == DhtKeyFromKeyId(ShortId(PubOverlay), "nodes")

\* a DHT key of the overlay that is not its "nodes" key
KeyOther == [id |-> ShortId(PubOverlay), idx |-> 1, name |-> "nodes"]

\* overlay nodes; ok tells whether OverlayUtils::verify_node accepts the node
OverlayNodeSet ==
    [id : {"X"}, version : {1, 2}, ok : {TRUE}]
    \cup [id : {"Y"}, version : {1}, ok : {TRUE}]
    \cup [id : {"X"}, version : {2}, ok : {FALSE}]

AddressPayload == [type |-> "AddressList", nodes |-> <<>>]

NodesPayload(nodes) == [type |-> "OverlayNodes", nodes |-> nodes]

\* the node lists of inbound OverlayNodes stores: one or two nodes
NodeLists ==
    {<<n>> : n \in OverlayNodeSet}
    \cup {<<n, m>> : n \in OverlayNodeSet, m \in OverlayNodeSet}

Ttls == 1..MaxTtl

DhtValueOf(pub, key, ksig, rule, payload, ttl, sig) ==
    [key |-> [id |-> pub, key |-> key, signature |-> ksig,
              update_rule |-> rule],
     value |-> payload, ttl |-> ttl, signature |-> sig]

\* the values of inbound Store queries: well-formed values of both update
\* rules at every ttl, values that break one requirement each, and a signed
\* value under the "nodes" key of the overlay that carries a node which
\* does not verify
StoreValues ==
    {DhtValueOf(PubEd, k, "valid", "Signature", pl, t, "valid") :
        k \in {KeyAddress, KeyNodes},
        pl \in {AddressPayload, NodesPayload(<<[id |-> "X", version |-> 1,
                                                ok |-> TRUE]>>)},
        t \in Ttls}
    \cup {DhtValueOf(PubOverlay, KeyNodes, "empty", "OverlayNodes",
                     NodesPayload(l), t, "empty") :
             l \in NodeLists, t \in Ttls}
    \cup {DhtValueOf(PubEd, KeyAddress, ks, "Signature", AddressPayload,
                     MaxTtl, vs) :
             ks \in {"valid", "bad", "empty"}, vs \in {"valid", "bad", "empty"}}
    \cup {DhtValueOf(PubOverlay, KeyAddress, "valid", "Signature",
                     AddressPayload, MaxTtl, "valid")}
    \cup {DhtValueOf(PubOverlay, KeyNodes, ks, "OverlayNodes",
                     NodesPayload(<<[id |-> "X", version |-> 1,
                                     ok |-> TRUE]>>), MaxTtl, vs) :
             ks \in {"empty", "valid"}, vs \in {"empty", "valid", "bad"}}
    \cup {DhtValueOf(pub, k, "empty", "OverlayNodes",
                     NodesPayload(<<[id |-> "X", version |-> 1,
                                     ok |-> TRUE]>>), MaxTtl, "empty") :
             pub \in {PubEd, PubOverlay},
             k \in {KeyNodes, KeyOther, KeyAddress}}
    \cup {DhtValueOf(PubOverlay, KeyNodes, "empty", "OverlayNodes", pl,
                     MaxTtl, "empty") :
             pl \in {AddressPayload, NodesPayload(<<>>)}}
    \cup {DhtValueOf(PubEd, KeyNodes, "valid", "Signature",
                     NodesPayload(<<[id |-> "X", version |-> 2,
                                     ok |-> FALSE]>>), 2, "valid")}
    \cup {DhtValueOf(PubEd, KeyAddress, "valid", "Anybody", AddressPayload,
                     MaxTtl, "valid"),
          DhtValueOf(PubOverlay, KeyNodes, "empty", "Anybody",
                     NodesPayload(<<[id |-> "X", version |-> 1,
                                     ok |-> TRUE]>>), MaxTtl, "empty")}

\* verify_value (lines 985-992): the key of the description must be an
\* Ed25519 key, and both signatures must verify under it
VerifyValue(value) ==
    /\ value.key.id.type = "Ed25519"
    /\ value.key.signature = "valid"
    /\ value.signature = "valid"

\* the outcome of a store: ret is "true", "false" (Ok(bool)) or "error"
StoreOutcome(st, ret) == [storage |-> st, ret |-> ret]

\* process_store_signed_value without the ttl comparison
ProcessStoreSignedValue_AlwaysReplace(st, h, value) ==
    IF ~VerifyValue(value) THEN StoreOutcome(st, "error")
    ELSE StoreOutcome(MapPut(st, h, value), "true")

\* process_store_signed_value (lines 791-810)
ProcessStoreSignedValue(st, h, value) ==
    IF ~VerifyValue(value) THEN StoreOutcome(st, "error")
    ELSE IF h \in DOMAIN st
    THEN IF st[h].ttl < value.ttl
         THEN StoreOutcome([st EXCEPT ![h] = value], "true")
         ELSE StoreOutcome(st, "false")
    ELSE StoreOutcome(MapPut(st, h, value), "true")

\* the loop of lines 718-724: nodes_list is popped from its end and the
\* nodes that verify are pushed
RECURSIVE PopValid(_, _)
PopValid(list, acc) ==
    IF list = <<>> THEN acc
    ELSE LET node == list[Len(list)]
             rest == SubSeq(list, 1, Len(list) - 1)
         IN PopValid(rest, IF node.ok THEN Append(acc, node) ELSE acc)

\* a search that never finds the id
FirstWithId_NeverFound(old_nodes, node) == 0

\* the index of the first node of old_nodes with the id of node, or 0
FirstWithId(old_nodes, node) ==
    LET is == {i \in 1..Len(old_nodes) : old_nodes[i].id = node.id} IN
    IF is = {} THEN 0 ELSE SetMin(is)

\* the comparison with >= in place of >
NodeIsNewer_OrEqual(node, old_node) == node.version >= old_node.version

\* node.version > old_node.version (line 734)
NodeIsNewer(node, old_node) == node.version > old_node.version

\* the process_nodes closure (lines 729-756): the merged list, or None
RECURSIVE ProcessNodes(_, _, _)
ProcessNodes(nodes, i, old_nodes) ==
    IF i > Len(nodes) THEN [some |-> TRUE, nodes |-> old_nodes]
    ELSE LET node == nodes[i]
             j == FirstWithId(old_nodes, node)
         IN IF j = 0
            THEN ProcessNodes(nodes, i + 1, Append(old_nodes, node))
            ELSE IF NodeIsNewer(node, old_nodes[j])
            THEN ProcessNodes(nodes, i + 1, [old_nodes EXCEPT ![j] = node])
            ELSE [some |-> FALSE, nodes |-> <<>>]

\* process_store_overlay_nodes (lines 699-789), t the value of now()
ProcessStoreOverlayNodes(st, h, value, t) ==
    IF value.signature # "empty" THEN StoreOutcome(st, "error")
    ELSE IF value.key.signature # "empty" THEN StoreOutcome(st, "error")
    ELSE IF value.key.id.type # "Overlay" THEN StoreOutcome(st, "error")
    ELSE IF DhtKeyFromKeyId(ShortId(value.key.id), "nodes") # value.key.key
    THEN StoreOutcome(st, "error")
    ELSE IF value.value.type # "OverlayNodes" THEN StoreOutcome(st, "error")
    ELSE LET nodes == PopValid(value.value.nodes, <<>>) IN
    IF nodes = <<>> THEN StoreOutcome(st, "error")
    ELSE IF h \in DOMAIN st
    THEN IF st[h].ttl >= t /\ st[h].ttl > value.ttl
         THEN StoreOutcome(st, "false")
         ELSE IF st[h].ttl >= t /\ st[h].value.type # "OverlayNodes"
         THEN StoreOutcome(st, "error")
         ELSE LET old_nodes == IF st[h].ttl < t THEN <<>>
                               ELSE st[h].value.nodes
                  merged == ProcessNodes(nodes, 1, old_nodes)
              IN IF merged.some
                 THEN StoreOutcome(
                         [st EXCEPT ![h] =
                             [value EXCEPT !.value =
                                 NodesPayload(merged.nodes)]], "true")
                 ELSE StoreOutcome(st, "false")
    ELSE LET merged == ProcessNodes(nodes, 1, <<>>) IN
         IF merged.some
         THEN StoreOutcome(
                 MapPut(st, h, [value EXCEPT !.value =
                                   NodesPayload(merged.nodes)]), "true")
         ELSE StoreOutcome(st, "false")

\* the ttl test with < in place of <=
StoreExpired_Strict(value, t) == value.ttl < t

\* the ttl test of process_store (line 681)
StoreExpired(value, t) == value.ttl <= t

\* process_store (lines 679-697): the outcome of Store{value} at time t
ProcessStoreOutcome(st, value, t) ==
    LET dht_key_id == Hash(value.key.key) IN
    IF StoreExpired(value, t) THEN StoreOutcome(st, "error")
    ELSE IF value.key.update_rule = "Signature"
    THEN ProcessStoreSignedValue(st, dht_key_id, value)
    ELSE IF value.key.update_rule = "OverlayNodes"
    THEN ProcessStoreOverlayNodes(st, dht_key_id, value, t)
    ELSE StoreOutcome(st, "error")

\* try_consume_query on Store{value}
ProcessStore(value) ==
    /\ LET out == ProcessStoreOutcome(storage, value, now) IN
       /\ storage' = out.storage
       /\ reply' = IF out.ret = "error"
                   THEN [kind |-> "Error", op |-> "Store"]
                   ELSE [kind |-> "Stored"]
    /\ UNCHANGED <<buckets, known_peers, task, now, calc, fv, sent, sv>>

Absent == [some |-> FALSE]

(***************************************************************************)
(* Inbound Store queries handled concurrently.  A handler checks the value *)
(* (lines 681-694, 703-727, 794), takes the entry of the storage map       *)
(* (self.storage.entry, lines 758 and 796), and compares and replaces      *)
(* while it holds the guard of that entry.                                 *)
(***************************************************************************)
\* the checks made before the entry is taken, t the value of now()
StorePreCheckOk(value, t) ==
    /\ ~StoreExpired(value, t)
    /\ \/ /\ value.key.update_rule = "Signature"
          /\ VerifyValue(value)
       \/ /\ value.key.update_rule = "OverlayNodes"
          /\ value.signature = "empty"
          /\ value.key.signature = "empty"
          /\ value.key.id.type = "Overlay"
          /\ DhtKeyFromKeyId(ShortId(value.key.id), "nodes") = value.key.key
          /\ value.value.type = "OverlayNodes"
          /\ PopValid(value.value.nodes, <<>>) # <<>>

\* the entry of hash h as storage.entry(h) finds it
EntryOf(st, h) ==
    IF h \in DOMAIN st THEN [some |-> TRUE, value |-> st[h]] ELSE Absent

\* the match on the entry (lines 758-788 and 796-809) applied to the entry
\* the handler holds
UnderEntryGuard(old, h, value, t) ==
    LET view == IF old.some THEN MapPut(EmptyMap, h, old.value) ELSE EmptyMap
    IN IF value.key.update_rule = "Signature"
       THEN ProcessStoreSignedValue(view, h, value)
       ELSE ProcessStoreOverlayNodes(view, h, value, t)

\* an entry that is handed out while another handler holds its guard
EntryFree_NoGuard(h) == TRUE

\* storage.entry(h) returns once no other handler holds the guard of h
EntryFree(h) ==
    \A q \in Procs :
       ~(task[q].pc = "guard" /\ Hash(task[q].value.key.key) = h)

\* the values of the Store queries handled concurrently
ConcurrentStoreValues ==
    {DhtValueOf(PubEd, KeyAddress, "valid", "Signature", AddressPayload, t,
                "valid") : t \in {2, MaxTtl}}
    \cup {DhtValueOf(PubEd, KeyAddress, "bad", "Signature", AddressPayload,
                     MaxTtl, "valid")}
    \cup {DhtValueOf(PubEd, KeyNodes, "valid", "Signature",
                     NodesPayload(<<[id |-> "X", version |-> 1,
                                     ok |-> TRUE]>>), MaxTtl, "valid")}
    \cup {DhtValueOf(PubOverlay, KeyNodes, "empty", "OverlayNodes",
                     NodesPayload(<<n>>), MaxTtl, "empty") :
             n \in {m \in OverlayNodeSet : m.ok}}
    \cup {DhtValueOf(PubOverlay, KeyNodes, "empty", "OverlayNodes",
                     NodesPayload(<<[id |-> "X", version |-> 1,
                                     ok |-> TRUE]>>), 2, "empty")}

\* a handler is given Store{value}
StoreCall(p, value) ==
    /\ task[p].pc = "idle"
    /\ task' = [task EXCEPT ![p] = [pc |-> "store", value |-> value]]
    /\ UNCHANGED <<buckets, known_peers, storage, now, reply, calc, fv, sent, sv>>

\* process_store up to the entry: a value that fails a check is answered
\* with an error
StoreCheck(p) ==
    /\ task[p].pc = "store"
    /\ IF StorePreCheckOk(task[p].value, now)
       THEN /\ task' = [task EXCEPT ![p] = [pc |-> "entry",
                                            value |-> task[p].value]]
            /\ UNCHANGED reply
       ELSE /\ task' = [task EXCEPT ![p] = Idle]
            /\ reply' = [kind |-> "Error", op |-> "Store"]
    /\ UNCHANGED <<buckets, known_peers, storage, now, calc, fv, sent, sv>>

\* self.storage.entry(dht_key_id): the handler takes the guard of the entry
StoreEntry(p) ==
    /\ task[p].pc = "entry"
    /\ LET h == Hash(task[p].value.key.key) IN
       /\ EntryFree(h)
       /\ task' = [task EXCEPT ![p] = [pc |-> "guard",
                                       value |-> task[p].value,
                                       old |-> EntryOf(storage, h)]]
    /\ UNCHANGED <<buckets, known_peers, storage, now, reply, calc, fv, sent, sv>>

\* the compare and the replace or insert under the guard, and the release
StoreReplace(p) ==
    /\ task[p].pc = "guard"
    /\ LET value == task[p].value
           h == Hash(value.key.key)
           out == UnderEntryGuard(task[p].old, h, value, now)
       IN /\ storage' = IF out.ret = "true"
                        THEN MapPut(storage, h, out.storage[h])
                        ELSE storage
          /\ reply' = IF out.ret = "error"
                      THEN [kind |-> "Error", op |-> "Store"]
                      ELSE [kind |-> "Stored"]
    /\ task' = [task EXCEPT ![p] = Idle]
    /\ UNCHANGED <<buckets, known_peers, now, calc, fv, sent, sv>>

\* search_dht_key (lines 828-839), t the value of now()
SearchDhtKey(st, h, t) ==
    IF h \in DOMAIN st
    THEN IF st[h].ttl > t THEN [some |-> TRUE, value |-> st[h]] ELSE Absent
    ELSE Absent

\* the hashes asked for by FindValue: those of the DHT keys above
QueryHashes == {Hash(KeyAddress), Hash(KeyNodes), Hash(KeyOther)}

\* try_consume_query on FindValue{key, k} (process_find_value, lines 654-671)
ProcessFindValue(h, k) ==
    /\ LET found == SearchDhtKey(storage, h, now) IN
       IF found.some
       THEN reply' = [kind |-> "ValueFound", value |-> found.value]
       ELSE IF k = 0
       THEN reply' = [kind |-> "Error", op |-> "FindValue"]
       ELSE \E nodes \in GetKnownNodes(buckets, k) :
               reply' = [kind |-> "ValueNotFound", nodes |-> nodes]
    /\ UNCHANGED <<buckets, known_peers, task, storage, now, calc, fv, sent, sv>>

\* fetch_address (lines 203-215) with parse_value_as_address (lines 600-611)
FetchAddress(key_id) ==
    /\ LET found == SearchDhtKey(storage,
                                 Hash(DhtKeyFromKeyId(key_id, "address")), now)
       IN IF ~found.some THEN reply' = [kind |-> "Absent"]
          ELSE IF found.value.value.type # "AddressList"
          THEN reply' = [kind |-> "Error", op |-> "FetchAddress"]
          ELSE IF found.value.key.id.type # "Ed25519"
          THEN reply' = [kind |-> "Error", op |-> "FetchAddress"]
          ELSE reply' = [kind |-> "Address", value |-> found.value]
    /\ UNCHANGED <<buckets, known_peers, task, storage, now, calc, fv, sent, sv>>

(***************************************************************************)
(* The Subscriber implementation (lines 996-1045): try_consume_query on a  *)
(* solo query and try_consume_query_bundle on a bundle of typed messages.  *)
(***************************************************************************)
\* the random_id values of inbound Ping queries
RandomIds == {7, 9}

Ping(random_id) == [type |-> "Ping", random_id |-> random_id]

FindNode(key, k) == [type |-> "FindNode", key |-> key, k |-> k]

\* the key of a FindValue is the hash of a DHT key (dht_key_id)
FindValue(dht_key_id, k) ==
    [type |-> "FindValue", dht_key_id |-> dht_key_id, k |-> k]

GetSignedAddressList == [type |-> "GetSignedAddressList"]

Store(value) == [type |-> "Store", value |-> value]

\* the envelope dht.query{node}
Query(node) == [type |-> "Query", node |-> node]

\* a typed message that is none of the queries of the DHT
OtherObject == [type |-> "Other"]

\* the values of the Store queries sent solo or in a bundle
QueryStoreValues ==
    {DhtValueOf(PubEd, KeyAddress, ks, "Signature", AddressPayload, MaxTtl,
                "valid") : ks \in {"valid", "bad"}}

\* the queries handed to try_consume_query, solo or as the second message of
\* a bundle
SoloQueries ==
    {Ping(r) : r \in RandomIds}
    \cup {FindNode(KeyData[id], MaxK) : id \in {"p2", "p3"}}
    \cup {FindValue(Hash(KeyAddress), k) : k \in {0, 2}}
    \cup {GetSignedAddressList}
    \cup {Store(value) : value \in QueryStoreValues}
    \cup {OtherObject}

\* a Pong that does not echo the random_id
PongOf_Fixed(random_id) == [kind |-> "Pong", random_id |-> 0]

\* process_ping (lines 673-677)
PongOf(random_id) == [kind |-> "Pong", random_id |-> random_id]

\* sign_local_node (lines 851-859): the local descriptor, signed, with
\* version now()
SignLocalNode(t) ==
    [id |-> LocalId, version |-> t, sig |-> "valid", addr |-> "ok"]

\* try_consume_query (lines 997-1021): the replies a query can get and the
\* storage each leaves, from routing table bks and storage st at time t
QueryOutcomes(q, bks, st, t) ==
    CASE q.type = "Ping" ->
            {[reply |-> PongOf(q.random_id), storage |-> st]}
      [] q.type = "FindNode" ->
            {[reply |-> [kind |-> "Nodes", nodes |-> r], storage |-> st] :
                r \in FindNodeResults(bks, q.key, q.k)}
      [] q.type = "FindValue" ->
            LET found == SearchDhtKey(st, q.dht_key_id, t) IN
            IF found.some
            THEN {[reply |-> [kind |-> "ValueFound", value |-> found.value],
                   storage |-> st]}
            ELSE IF q.k = 0
            THEN {[reply |-> [kind |-> "Error", op |-> "FindValue"],
                   storage |-> st]}
            ELSE {[reply |-> [kind |-> "ValueNotFound", nodes |-> nodes],
                   storage |-> st] : nodes \in GetKnownNodes(bks, q.k)}
      [] q.type = "GetSignedAddressList" ->
            {[reply |-> [kind |-> "Node", node |-> SignLocalNode(t)],
              storage |-> st]}
      [] q.type = "Store" ->
            LET out == ProcessStoreOutcome(st, q.value, t) IN
            {[reply |-> IF out.ret = "error"
                        THEN [kind |-> "Error", op |-> "Store"]
                        ELSE [kind |-> "Stored"],
              storage |-> out.storage]}
      [] OTHER ->
            {[reply |-> [kind |-> "Rejected", object |-> q], storage |-> st]}

\* try_consume_query on the solo query q
TryConsumeQuery(q) ==
    /\ \E o \in QueryOutcomes(q, buckets, storage, now) :
          /\ reply' = o.reply
          /\ storage' = o.storage
    /\ UNCHANGED <<buckets, known_peers, task, now, calc, fv, sent, sv>>

\* add_peer (lines 119-178) run from its call to its return: ret is the
\* key-id (Some), None, or "error" (Err)
AddPeerOutcomes(bks, cache, peer) ==
    IF ~VerifyOtherNode(peer)
    THEN {[ret |-> None, buckets |-> bks, known_peers |-> cache]}
    ELSE IF ~ParseAddressListOk(peer)
    THEN {[ret |-> "error", buckets |-> bks, known_peers |-> cache]}
    ELSE LET ret == AdnlAddPeer(LocalId, peer) IN
         IF ret = None
         THEN {[ret |-> None, buckets |-> bks, known_peers |-> cache]}
         ELSE {[ret |-> ret,
                buckets |-> IF r.added
                            THEN BucketsUpdate(
                                    bks,
                                    AddPeerDist(KeyData[LocalId],
                                                KeyData[ret]).dist,
                                    ret, peer)
                            ELSE bks,
                known_peers |-> r.cache] : r \in CachePut(cache, ret)}

\* a removal that leaves the vector as it was
RemoveFirst_Kept(objects) == objects

\* objects.remove(0): what is left of the vector
RemoveFirst(objects) == Tail(objects)

\* the object put back at the end of the vector
InsertFront_AtEnd(objects, object) == Append(objects, object)

\* objects.insert(0, object)
InsertFront(objects, object) == <<object>> \o objects

\* the descriptors announced by the senders of bundles
BundleSenders ==
    {n \in PeerNodes : /\ n.version = MaxVersion
                       /\ (n.id \in {"p2", "p3"} \/ n.sig = "bad")}

\* the inbound bundles: every vector of up to three messages out of two,
\* and every pair of an envelope and a query
Bundles ==
    LET few == {Query(CHOOSE n \in BundleSenders :
                         n.id = "p2" /\ VerifyOtherNode(n)
                                     /\ ParseAddressListOk(n)),
                Ping(7)}
    IN {<<>>}
       \cup {<<a>> : a \in few}
       \cup {<<a, b>> : a \in few, b \in few}
       \cup {<<a, b, c>> : a \in few, b \in few, c \in few}
       \cup {<<Query(n), q>> : n \in BundleSenders, q \in SoloQueries}

\* a handler is given the bundle objects
BundleCall(p, objects) ==
    /\ task[p].pc = "idle"
    /\ task' = [task EXCEPT ![p] = [pc |-> "objects", objects |-> objects]]
    /\ UNCHANGED <<buckets, known_peers, storage, now, reply, calc, fv, sent, sv>>

\* try_consume_query_bundle up to the return of add_peer (lines 1028-1038)
ConsumeQueryBundle(p) ==
    /\ task[p].pc = "objects"
    /\ LET objects == task[p].objects IN
       IF Len(objects) # 2
       THEN /\ reply' = [kind |-> "RejectedBundle", objects |-> objects]
            /\ task' = [task EXCEPT ![p] = Idle]
            /\ UNCHANGED <<buckets, known_peers>>
       ELSE LET first == objects[1]
                rest == RemoveFirst(objects)
            IN IF first.type # "Query"
               THEN /\ reply' = [kind |-> "RejectedBundle",
                                 objects |-> InsertFront(rest, first)]
                    /\ task' = [task EXCEPT ![p] = Idle]
                    /\ UNCHANGED <<buckets, known_peers>>
               ELSE \E a \in AddPeerOutcomes(buckets, known_peers,
                                             first.node) :
                       /\ buckets' = a.buckets
                       /\ known_peers' = a.known_peers
                       /\ IF a.ret = "error"
                          THEN /\ reply' = [kind |-> "Error",
                                            op |-> "Bundle"]
                               /\ task' = [task EXCEPT ![p] = Idle]
                          ELSE /\ UNCHANGED reply
                               /\ task' = [task EXCEPT ![p] =
                                             [pc |-> "query",
                                              peer |-> first.node,
                                              query |-> rest[1]]]
    /\ UNCHANGED <<storage, now, calc, fv, sent, sv>>

\* try_consume_query_bundle from the second message on (lines 1039-1043)
BundleQuery(p) ==
    /\ task[p].pc = "query"
    /\ \E o \in QueryOutcomes(task[p].query, buckets, storage, now) :
          /\ reply' = IF o.reply.kind = "Rejected"
                      THEN [kind |-> "Error", op |-> "Bundle"]
                      ELSE o.reply
          /\ storage' = o.storage
    /\ task' = [task EXCEPT ![p] = Idle]
    /\ UNCHANGED <<buckets, known_peers, now, calc, fv, sent, sv>>

(***************************************************************************)
(* find_value (lines 513-598).  The session spawns one task per peer of    *)
(* the known-peer cache and collects their responses through a wait-group  *)
(* (Wait): count is its counter, queue its channel.  A response is TRUE    *)
(* for Some(value) and FALSE for None.  During a session the cache holds   *)
(* peer handles 1, 2, ... and stays below its limit.                       *)
(***************************************************************************)
\* no find_value session is running
NoSession == [pc |-> "idle"]

\* nothing has been sent yet
NoSent == [dst |-> 0, objects |-> <<>>]

\* no store_value session is running
NoStore == [pc |-> "idle"]

\* self.query(dst, query) (lines 812-815): the query goes out bare
QueryBare(dst, query) == [dst |-> dst, objects |-> <<query>>]

\* self.query_with_prefix(dst, query) (lines 817-826): the query goes out
\* behind query_prefix, the envelope serialized by the constructor
QueryWithPrefix(dst, query) ==
    [dst |-> dst, objects |-> <<Query(SignLocalNode(0)), query>>]

\* a request that returns the counter as it was before the increment
RequestReturn_Before(count) == count

\* wait.request() (line 549): the counter after the increment
RequestReturn(count) == count + 1

\* whether the cache has an entry at index iter
PeerAt(cache, iter) == iter < Len(cache)

\* a cursor that known_peers.next leaves where it stands
NextIter_Stuck(iter) == iter

\* known_peers.next(iter) (lines 341, 559): the cursor moves on by one
NextIter(iter) == iter + 1

\* a re-arm that never finds a peer
Given_Never(cache, iter) == FALSE

\* known_peers.given(iter) (line 591): the peer the cursor stands at
Given(cache, iter) == PeerAt(cache, iter)

\* the FindValue query of a session (lines 527-531)
FindValueQuery(all) ==
    FindValue(Hash(IF all THEN KeyNodes ELSE KeyAddress), 6)

\* the session find_value enters its loop with: the cursor at iter, where
\* get_known_peer found a peer or none (lines 520-541)
FvStart(all, iter, cache, queried, requeried) ==
    [pc |-> "fanout", all |-> all, iter |-> iter, start |-> iter,
     current |-> PeerAt(cache, iter), count |-> 0, running |-> 0,
     queue |-> <<>>, ret |-> 0, finished |-> FALSE, failed |-> FALSE,
     queried |-> queried, requeried |-> requeried]

\* find_value(dht, key, check, all, &mut None) up to the loop: get_known_peer
\* takes known_peers.first() (lines 339-342)
FindValueCall(all) ==
    /\ fv.pc \in {"idle", "kept"}
    /\ fv' = FvStart(all, 0, known_peers, {}, {})
    /\ UNCHANGED <<buckets, known_peers, task, storage, now, reply, calc,
                   sent, sv>>

\* find_value(dht, key, check, all, iter) with the cursor the call before
\* left in iter: get_known_peer takes known_peers.next(iter) (lines 337-338)
FindValueResume(all) ==
    /\ fv.pc = "kept"
    /\ fv' = FvStart(all, NextIter(fv.iter), known_peers, fv.queried,
                     fv.requeried)
    /\ UNCHANGED <<buckets, known_peers, task, storage, now, reply, calc,
                   sent, sv>>

\* one round of while let Some(peer) = current (lines 543-563); the spawned
\* value_query sends the query with self.query (line 934)
FvSpawn ==
    /\ fv.pc = "fanout"
    /\ fv.current
    /\ LET reqs == RequestReturn(fv.count) IN
       fv' = [fv EXCEPT !.count = fv.count + 1,
                        !.running = fv.running + 1,
                        !.iter = NextIter(fv.iter),
                        !.current = PeerAt(known_peers, NextIter(fv.iter)),
                        !.queried = fv.queried \cup {fv.iter},
                        !.requeried = IF fv.iter \in fv.queried
                                      THEN fv.requeried \cup {fv.iter}
                                      ELSE fv.requeried,
                        !.pc = IF reqs >= MAX_TASKS THEN "wait"
                               ELSE "fanout"]
    /\ sent' = QueryBare(known_peers[fv.iter + 1], FindValueQuery(fv.all))
    /\ UNCHANGED <<buckets, known_peers, task, storage, now, reply, calc, sv>>

\* the while loop ends for want of a current peer
FvFanoutEnd ==
    /\ fv.pc = "fanout"
    /\ ~fv.current
    /\ fv' = [fv EXCEPT !.pc = "wait"]
    /\ UNCHANGED <<buckets, known_peers, task, storage, now, reply, calc,
                   sent, sv>>

\* the ways a value_query ends (lines 934-975)
ValueQueryOutcomes ==
    {"found", "improper", "not_found", "no_answer", "query_error",
     "parse_error", "deserialize_error", "add_peer_error"}

\* value_query (lines 927-976): Ok(Some(value)), Ok(None) or Err
ValueQuery(outcome) ==
    CASE outcome = "found" -> "some"
      [] outcome \in {"improper", "not_found", "no_answer"} -> "none"
      [] OTHER -> "error"

\* a spawned task that hands an error over as a value
SpawnedRespond_ErrAsFound(result) == result \in {"some", "error"}

\* what the spawned task hands to wait.respond (lines 551-557): TRUE for
\* Some(value), FALSE for None
SpawnedRespond(result) == result = "some"

\* a spawned task ends (lines 550-558)
FvRespond(outcome) ==
    /\ fv.pc \in {"fanout", "wait", "stop"}
    /\ fv.running > 0
    /\ fv' = [fv EXCEPT !.running = fv.running - 1,
                        !.queue = Append(fv.queue,
                                         SpawnedRespond(ValueQuery(outcome))),
                        !.failed = fv.failed
                                   \/ ValueQuery(outcome) = "error"]
    /\ UNCHANGED <<buckets, known_peers, task, storage, now, reply, calc,
                   sent, sv>>

\* a peer is put into the known-peer cache (add_peer from value_query,
\* line 963, or from any other caller)
CacheGrows ==
    /\ Len(known_peers) < MaxPeers
    /\ known_peers' = Append(known_peers, Len(known_peers) + 1)
    /\ UNCHANGED <<buckets, task, storage, now, reply, calc, fv, sent, sv>>

\* the cache grows while store_value runs
CacheGrowsSV ==
    /\ Len(known_peers) < MaxStorePeers
    /\ CacheGrows

\* the cache grows between sessions, and during a session only by the
\* add_peer of one of its own value_query tasks (line 963)
CacheGrowsQuiet ==
    /\ IF fv.pc \in {"idle", "kept"} THEN TRUE ELSE fv.running > 0
    /\ CacheGrows

\* one round of the drain loop (lines 573-585): wait.wait returns None when
\* nothing is outstanding and the next response otherwise
FvWait ==
    /\ fv.pc = "wait"
    /\ IF fv.count = 0
       THEN fv' = [fv EXCEPT !.finished = TRUE, !.pc = "stop"]
       ELSE /\ fv.queue # <<>>
            /\ LET ret == IF Head(fv.queue) THEN fv.ret + 1 ELSE fv.ret IN
               fv' = [fv EXCEPT !.queue = Tail(fv.queue),
                                !.count = fv.count - 1,
                                !.ret = ret,
                                !.pc = IF ~fv.all \/ ret < MAX_TASKS
                                       THEN "stop" ELSE "wait"]
    /\ UNCHANGED <<buckets, known_peers, task, storage, now, reply, calc,
                   sent, sv>>

\* the end of a round of the outer loop (lines 586-593)
FvStop ==
    /\ fv.pc = "stop"
    /\ IF \/ fv.all /\ fv.ret >= MAX_TASKS
          \/ ~fv.all /\ fv.ret > 0
          \/ fv.finished
       THEN fv' = [fv EXCEPT !.pc = "done"]
       ELSE fv' = [fv EXCEPT !.pc = "fanout",
                             !.finished = FALSE,
                             !.current = IF fv.current THEN TRUE
                                         ELSE Given(known_peers, fv.iter)]
    /\ UNCHANGED <<buckets, known_peers, task, storage, now, reply, calc,
                   sent, sv>>

\* find_value returns ret (lines 594-597): the caller keeps the cursor when a
\* peer was fetched and not queried, and loses it otherwise
FvReturn ==
    /\ fv.pc = "done"
    /\ sv.pc = "idle"
    /\ fv' = IF fv.current
             THEN [fv EXCEPT !.pc = "kept", !.count = 0, !.running = 0,
                             !.queue = <<>>, !.ret = 0, !.finished = FALSE,
                             !.failed = FALSE]
             ELSE NoSession
    /\ UNCHANGED <<buckets, known_peers, task, storage, now, reply, calc,
                   sent, sv>>

(***************************************************************************)
(* store_ip_address and store_overlay_node (lines 407-496) and the         *)
(* store_value they end in (lines 871-925).  The value is applied to the   *)
(* local storage, then sent to every peer of the cache in rounds; each     *)
(* round is followed by a find_value that reads the value back.            *)
(***************************************************************************)
TIMEOUT_VALUE == 3600

\* sign_value("address", value, key) (lines 861-869) at time t
SignValue(t) ==
    DhtValueOf(PubEd, KeyAddress, "valid", "Signature", AddressPayload,
               t + TIMEOUT_VALUE, "valid")

\* the DhtValue store_overlay_node builds for node at time t (lines 459-471)
OverlayNodeValue(node, t) ==
    DhtValueOf(PubOverlay, KeyNodes, "empty", "OverlayNodes",
               NodesPayload(<<node>>), t + TIMEOUT_VALUE, "empty")

\* the nodes handed to store_overlay_node: one of them does not verify
OwnOverlayNodes ==
    OverlayNodeSet \cup {[id |-> "X", version |-> 2, ok |-> FALSE]}

\* store_value has returned result
SvReturned(kind, value, result, iter, rounds, verified) ==
    [pc |-> "returned", kind |-> kind, value |-> value, iter |-> iter,
     peer |-> FALSE, count |-> 0, running |-> 0, queue |-> <<>>,
     rounds |-> rounds, verified |-> verified, result |-> result]

\* store_value up to its loop (lines 879-881): the cursor at the first slot;
\* with no peer there the loop is not entered and Ok(false) is returned
SvStart(kind, value, cache) ==
    IF PeerAt(cache, 0)
    THEN [pc |-> "spawn", kind |-> kind, value |-> value, iter |-> 0,
          peer |-> TRUE, count |-> 0, running |-> 0, queue |-> <<>>,
          rounds |-> 0, verified |-> FALSE, result |-> None]
    ELSE SvReturned(kind, value, "false", 0, 0, FALSE)

\* store_ip_address (lines 407-442) up to the loop of store_value
StoreIpAddress ==
    /\ sv.pc = "idle"
    /\ LET value == SignValue(now)
           out == ProcessStoreSignedValue(storage, Hash(KeyAddress), value)
       IN /\ storage' = out.storage
          /\ sv' = IF out.ret = "error"
                   THEN SvReturned("address", value, "error", 0, 0, FALSE)
                   ELSE SvStart("address", value, known_peers)
    /\ UNCHANGED <<buckets, known_peers, task, now, reply, calc, fv, sent>>

\* store_overlay_node (lines 445-496) up to the loop of store_value
StoreOverlayNode(node) ==
    /\ sv.pc = "idle"
    /\ LET value == OverlayNodeValue(node, now)
           out == ProcessStoreOverlayNodes(storage, Hash(KeyNodes), value,
                                           now)
       IN IF ~node.ok
          THEN /\ sv' = SvReturned("overlay", value, "error", 0, 0, FALSE)
               /\ UNCHANGED storage
          ELSE /\ storage' = out.storage
               /\ sv' = IF out.ret = "error"
                        THEN SvReturned("overlay", value, "error", 0, 0,
                                        FALSE)
                        ELSE SvStart("overlay", value, known_peers)
    /\ UNCHANGED <<buckets, known_peers, task, now, reply, calc, fv, sent>>

\* one round of while let Some(next) = peer (lines 883-903): the spawned task
\* sends Store{value} with dht.query (line 891)
SvSpawn ==
    /\ sv.pc = "spawn"
    /\ sv.peer
    /\ sv' = [sv EXCEPT !.count = RequestReturn(sv.count),
                        !.running = sv.running + 1,
                        !.iter = NextIter(sv.iter),
                        !.peer = PeerAt(known_peers, NextIter(sv.iter))]
    /\ sent' = QueryBare(known_peers[sv.iter + 1], Store(sv.value))
    /\ UNCHANGED <<buckets, known_peers, task, storage, now, reply, calc, fv>>

\* the inner loop ends for want of a peer
SvSpawnEnd ==
    /\ sv.pc = "spawn"
    /\ ~sv.peer
    /\ sv' = [sv EXCEPT !.pc = "drain"]
    /\ UNCHANGED <<buckets, known_peers, task, storage, now, reply, calc, fv,
                   sent>>

\* a spawned task ends (lines 891-901): wait.respond(Some(())) for a Stored
\* answer, wait.respond(None) for no answer, another answer or an error
SvRespond(stored) ==
    /\ sv.pc \in {"spawn", "drain"}
    /\ sv.running > 0
    /\ sv' = [sv EXCEPT !.running = sv.running - 1,
                        !.queue = Append(sv.queue, stored)]
    /\ UNCHANGED <<buckets, known_peers, task, storage, now, reply, calc, fv,
                   sent>>

\* a wait that reports nothing outstanding while one request still is
WaitEmpty_AtOne(count) == count <= 1

\* wait.wait(..) returns None (line 905): no request is outstanding
WaitEmpty(count) == count = 0

\* one turn of while wait.wait(..).await.is_some() {} (line 905)
SvDrain ==
    /\ sv.pc = "drain"
    /\ ~WaitEmpty(sv.count)
    /\ sv.queue # <<>>
    /\ sv' = [sv EXCEPT !.queue = Tail(sv.queue), !.count = sv.count - 1]
    /\ UNCHANGED <<buckets, known_peers, task, storage, now, reply, calc, fv,
                   sent>>

\* the drain is over and the read-back find_value starts (lines 905-907)
SvReadBack ==
    /\ sv.pc = "drain"
    /\ WaitEmpty(sv.count)
    /\ fv.pc \in {"idle", "kept"}
    /\ sv' = [sv EXCEPT !.pc = "readback", !.rounds = sv.rounds + 1]
    /\ fv' = FvStart(sv.kind = "overlay", 0, known_peers, {}, {})
    /\ UNCHANGED <<buckets, known_peers, task, storage, now, reply, calc,
                   sent>>

\* what check_vals can return on ret values (lines 420-439 and 474-492):
\* the address check fails on an address list that does not parse
CheckVals(kind, ret) ==
    IF ret = 0 THEN {"false"}
    ELSE IF kind = "address" THEN {"true", "false", "error"}
    ELSE {"true", "false"}

\* a store_value that gives up after the first round
AfterRound_GiveUp(verdict, peer) ==
    IF verdict = "false" THEN "false" ELSE verdict

\* what follows a round (lines 907-913): the result returned, or None when
\* the cursor has a further peer and another round starts
AfterRound(verdict, peer) ==
    IF verdict = "false" THEN (IF peer THEN None ELSE "false") ELSE verdict

\* find_value has returned: check_vals, then the next peer (lines 907-913)
SvCheck(verdict) ==
    /\ sv.pc = "readback"
    /\ fv.pc = "done"
    /\ verdict \in CheckVals(sv.kind, fv.ret)
    /\ fv' = NoSession
    /\ LET iter == IF verdict = "false" THEN NextIter(sv.iter) ELSE sv.iter
           peer == verdict = "false" /\ PeerAt(known_peers, iter)
           result == AfterRound(verdict, peer)
       IN sv' = IF result = None
                THEN [sv EXCEPT !.pc = "spawn", !.iter = iter, !.peer = TRUE]
                ELSE SvReturned(sv.kind, sv.value, result, iter, sv.rounds,
                                verdict = "true")
    /\ UNCHANGED <<buckets, known_peers, task, storage, now, reply, calc,
                   sent>>

\* the caller has the result of store_value
SvReturn ==
    /\ sv.pc = "returned"
    /\ sv' = NoStore
    /\ UNCHANGED <<buckets, known_peers, task, storage, now, reply, calc, fv,
                   sent>>

\* store_ip_address once no inbound handler holds the entry of its key
\* (storage.entry at line 796 waits for the guard)
LocalStoreIpAddress ==
    /\ EntryFree(Hash(KeyAddress))
    /\ StoreIpAddress

\* store_overlay_node once no inbound handler holds the entry of its key
\* (storage.entry at line 758 waits for the guard)
LocalStoreOverlayNode(node) ==
    /\ EntryFree(Hash(KeyNodes))
    /\ StoreOverlayNode(node)

(***************************************************************************)
(* The other outbound queries (lines 180-200, 366-376, 393-403), sent to a *)
(* peer of the cache.  The nodes of an answer go through add_peer, which   *)
(* may put a peer into the cache.  They are issued between two stores.     *)
(***************************************************************************)
\* what add_peer of the answered nodes leaves of the cache: grown by
\* learned peers
CacheAfterAnswer(cache, learned) ==
    IF learned > 0 /\ Len(cache) < MaxStorePeers
    THEN Append(cache, Len(cache) + 1) ELSE cache

\* ping (lines 393-403)
PingPeer(dst, random_id) ==
    /\ sv.pc = "idle"
    /\ dst \in 1..Len(known_peers)
    /\ sent' = QueryBare(dst, Ping(random_id))
    /\ UNCHANGED <<buckets, known_peers, task, storage, now, reply, calc, fv,
                   sv>>

\* find_dht_nodes (lines 181-200)
FindDhtNodes(dst, learned) ==
    /\ sv.pc = "idle"
    /\ dst \in 1..Len(known_peers)
    /\ sent' = QueryWithPrefix(dst, FindNode(KeyData[LocalId], 10))
    /\ known_peers' = CacheAfterAnswer(known_peers, learned)
    /\ UNCHANGED <<buckets, task, storage, now, reply, calc, fv, sv>>

\* get_signed_address_list (lines 366-376)
GetSignedAddressListOf(dst, learned) ==
    /\ sv.pc = "idle"
    /\ dst \in 1..Len(known_peers)
    /\ sent' = QueryWithPrefix(dst, GetSignedAddressList)
    /\ known_peers' = CacheAfterAnswer(known_peers, learned)
    /\ UNCHANGED <<buckets, task, storage, now, reply, calc, fv, sv>>

\* a second passes
Tick ==
    /\ now < MaxNow
    /\ now' = now + 1
    /\ UNCHANGED <<buckets, known_peers, task, storage, reply, calc, fv, sent, sv>>

NoReply == [kind |-> "None"]

NoCalc == [a |-> <<>>, b |-> <<>>, done |-> FALSE, dist |-> 0,
           overflow |-> FALSE]

Init ==
    /\ buckets = EmptyMap
    /\ known_peers = <<>>
    /\ task = [p \in Procs |-> Idle]
    /\ storage = EmptyMap
    /\ now = 0
    /\ reply = NoReply
    /\ calc = NoCalc
    /\ fv = NoSession
    /\ sent = NoSent
    /\ sv = NoStore

\* the routing table under two concurrent add_peer calls
NextRT ==
    \/ \E p \in Procs, peer \in PeerNodes : AddPeerCall(p, peer)
    \/ \E p \in Procs : AddPeerBegin(p)
    \/ \E p \in Procs : AddPeerUpdate(p)

SpecRT == Init /\ [][NextRT]_vars

\* the descriptors that fill the routing table queried by FindNode
FindNodePeers ==
    {n \in PeerNodes : /\ n.id \in PeerIds
                       /\ n.version = MaxVersion
                       /\ VerifyOtherNode(n) /\ ParseAddressListOk(n)}

\* the storage under inbound Store and FindValue queries and local reads
NextST ==
    \/ \E value \in StoreValues : ProcessStore(value)
    \/ \E h \in QueryHashes, k \in 0..MaxK : ProcessFindValue(h, k)
    \/ \E id \in {ShortId(PubEd), ShortId(PubOverlay)} : FetchAddress(id)
    \/ Tick

SpecST == Init /\ [][NextST]_vars

\* the inbound Store queries of update rule OverlayNodes
OverlayStoreValues ==
    {value \in StoreValues : value.key.update_rule = "OverlayNodes"}

\* the storage under process_store_overlay_nodes calls alone
NextOV ==
    \/ \E value \in OverlayStoreValues : ProcessStore(value)
    \/ Tick

SpecOV == Init /\ [][NextOV]_vars

\* inbound solo queries and bundles, handled one after the other
NextQ ==
    \/ \E q \in SoloQueries : TryConsumeQuery(q)
    \/ \E objects \in Bundles : BundleCall(1, objects)
    \/ ConsumeQueryBundle(1)
    \/ BundleQuery(1)

SpecQ == Init /\ [][NextQ]_vars

\* find_value sessions while the known-peer cache grows
NextFV ==
    \/ \E all \in BOOLEAN : FindValueCall(all)
    \/ \E all \in BOOLEAN : FindValueResume(all)
    \/ FvSpawn
    \/ FvFanoutEnd
    \/ \E outcome \in ValueQueryOutcomes : FvRespond(outcome)
    \/ CacheGrows
    \/ FvWait
    \/ FvStop
    \/ FvReturn

SpecFV == Init /\ [][NextFV]_vars

\* the session and the tasks it spawned are scheduled by the runtime: a step
\* of the session that stays possible is taken, and every spawned query ends
LiveFV ==
    /\ SpecFV
    /\ WF_vars(FvSpawn)
    /\ WF_vars(FvFanoutEnd)
    /\ WF_vars(\E outcome \in ValueQueryOutcomes : FvRespond(outcome))
    /\ WF_vars(FvWait)
    /\ WF_vars(FvStop)

\* find_value sessions on a node where nothing else adds peers meanwhile
NextFS ==
    \/ \E all \in BOOLEAN : FindValueCall(all)
    \/ \E all \in BOOLEAN : FindValueResume(all)
    \/ FvSpawn
    \/ FvFanoutEnd
    \/ \E outcome \in ValueQueryOutcomes : FvRespond(outcome)
    \/ CacheGrowsQuiet
    \/ FvWait
    \/ FvStop
    \/ FvReturn

SpecFS == Init /\ [][NextFS]_vars

\* the values of the inbound Store queries that meet local stores
LocalAndInboundValues ==
    {DhtValueOf(PubOverlay, KeyNodes, "empty", "OverlayNodes",
                NodesPayload(<<[id |-> "X", version |-> 1, ok |-> TRUE]>>),
                t, "empty") : t \in {1, 2}}
    \cup {DhtValueOf(PubEd, KeyAddress, "valid", "Signature", AddressPayload,
                     MaxTtl, "valid")}

\* inbound Store queries handled by two concurrent handlers, and local stores
\* on a node that knows no peer
NextLS ==
    \/ \E p \in Procs, value \in LocalAndInboundValues : StoreCall(p, value)
    \/ \E p \in Procs : StoreCheck(p)
    \/ \E p \in Procs : StoreEntry(p)
    \/ \E p \in Procs : StoreReplace(p)
    \/ LocalStoreIpAddress
    \/ \E node \in OwnOverlayNodes : LocalStoreOverlayNode(node)
    \/ SvReturn
    \/ Tick

SpecLS == Init /\ [][NextLS]_vars

\* the outbound operations: stores with their read-back, ping, find_dht_nodes
\* and get_signed_address_list
NextSV ==
    \/ StoreIpAddress
    \/ \E node \in OwnOverlayNodes : StoreOverlayNode(node)
    \/ SvSpawn
    \/ SvSpawnEnd
    \/ \E stored \in BOOLEAN : SvRespond(stored)
    \/ SvDrain
    \/ SvReadBack
    \/ \E verdict \in {"true", "false", "error"} : SvCheck(verdict)
    \/ SvReturn
    \/ FvSpawn
    \/ FvFanoutEnd
    \/ \E outcome \in ValueQueryOutcomes : FvRespond(outcome)
    \/ FvWait
    \/ FvStop
    \/ \E dst \in 1..MaxStorePeers, random_id \in RandomIds :
          PingPeer(dst, random_id)
    \/ \E dst \in 1..MaxStorePeers, learned \in 0..1 :
          FindDhtNodes(dst, learned)
    \/ \E dst \in 1..MaxStorePeers, learned \in 0..1 :
          GetSignedAddressListOf(dst, learned)
    \/ CacheGrowsSV

SpecSV == Init /\ [][NextSV]_vars

\* inbound Store queries handled by two concurrent handlers
NextCS ==
    \/ \E p \in Procs, value \in ConcurrentStoreValues : StoreCall(p, value)
    \/ \E p \in Procs : StoreCheck(p)
    \/ \E p \in Procs : StoreEntry(p)
    \/ \E p \in Procs : StoreReplace(p)
    \/ Tick

SpecCS == Init /\ [][NextCS]_vars

\* inbound FindNode queries against a routing table filled by one caller
NextFN ==
    \/ \E peer \in FindNodePeers : AddPeerCall(1, peer)
    \/ AddPeerBegin(1)
    \/ AddPeerUpdate(1)
    \/ \E key \in FindNodeKeys, k \in 0..MaxK : ProcessFindNode(key, k)

SpecFN == Init /\ [][NextFN]_vars

\* every operation of the node
Next == NextRT \/ NextFN \/ NextST \/ NextCS \/ NextOV \/ NextQ
           \/ NextFV \/ NextFS \/ NextSV \/ NextLS

Spec == Init /\ [][Next]_vars

(***************************************************************************)
(* The bucket computation of add_peer on its own: every position of the    *)
(* first differing byte and every value of that byte.                      *)
(***************************************************************************)
DistInputs ==
    {Pattern(nz, x, 255) : nz \in 0..(KeyLen - 1), x \in 1..255}

InitDist ==
    /\ buckets = EmptyMap
    /\ known_peers = <<>>
    /\ task = [p \in Procs |-> Idle]
    /\ storage = EmptyMap
    /\ now = 0
    /\ reply = NoReply
    /\ fv = NoSession
    /\ sent = NoSent
    /\ sv = NoStore
    /\ \E d \in DistInputs :
          calc = [a |-> LocalData, b |-> XorKey(LocalData, d),
                  done |-> FALSE, dist |-> 0, overflow |-> FALSE]

ComputeDist ==
    /\ ~calc.done
    /\ LET r == AddPeerDist(calc.a, calc.b) IN
       calc' = [calc EXCEPT !.done = TRUE, !.dist = r.dist,
                            !.overflow = r.overflow]
    /\ UNCHANGED <<buckets, known_peers, task, storage, now, reply, fv, sent, sv>>

NextDist == ComputeDist

SpecDist == InitDist /\ [][NextDist]_vars

(***************************************************************************)
(* Properties of the routing table.                                        *)
(***************************************************************************)
\* the key-ids held in the routing table
TableKeys == UNION {DOMAIN buckets[d] : d \in DOMAIN buckets}

\* the descriptor the routing table holds for a key-id
TableNode(bks, id) ==
    LET d == CHOOSE d \in DOMAIN bks : id \in DOMAIN bks[d] IN bks[d][id]

InTable(bks, id) == \E d \in DOMAIN bks : id \in DOMAIN bks[d]

\* the step in which the add_peer call of p returns Some(key-id)
AddPeerReturnsSome(p) ==
    \/ /\ AddPeerBegin(p)
       /\ VerifyOtherNode(task[p].peer) /\ ParseAddressListOk(task[p].peer)
       /\ AdnlAddPeer(LocalId, task[p].peer) # None
       /\ task'[p].pc = "idle"
    \/ AddPeerUpdate(p)

\* C1: after add_peer calls with verified descriptors of one key-id, the
\* routing table holds for that key-id the greatest version among them: when
\* a call with a verified descriptor returns and no other call is running,
\* the stored version is not below the version of that descriptor.
C1_StoredVersionIsMaxAccepted ==
    [][\A p \in Procs :
          (AddPeerReturnsSome(p) /\ \A q \in Procs : task'[q].pc = "idle")
          => /\ InTable(buckets', task[p].peer.id)
             /\ TableNode(buckets', task[p].peer.id).version
                   >= task[p].peer.version]_vars

\* C2: under any interleaving of add_peer calls the version stored for a
\* key-id never decreases (and the entry is never dropped).
C2_VersionNeverDecreases ==
    [][\A d \in DOMAIN buckets : \A id \in DOMAIN buckets[d] :
          /\ d \in DOMAIN buckets'
          /\ id \in DOMAIN buckets'[d]
          /\ buckets'[d][id].version >= buckets[d][id].version]_vars

\* a call holds a descriptor older than the one stored for its key-id
C2_Witness ==
    \E p \in Procs :
       /\ task[p].pc = "update"
       /\ InTable(buckets, task[p].ret)
       /\ TableNode(buckets, task[p].ret).version > task[p].peer.version

C4_OneBucketByDistance ==
    \A d \in DOMAIN buckets : \A id \in DOMAIN buckets[d] :
       /\ d = LocalLeadingZeroBits[id]
       /\ \A e \in DOMAIN buckets : id \in DOMAIN buckets[e] => e = d

\* the four peers are in the table, two of them in the same bucket
C4_Witness ==
    /\ TableKeys = PeerIds
    /\ \E d \in DOMAIN buckets : Cardinality(DOMAIN buckets[d]) = 2

\* C5: for a # b the byte/nibble computation of add_peer yields the number
\* of leading zero bits of a XOR b, and no addition leaves the u8 range.
C5_DistIsLeadingZeroBits ==
    calc.done =>
       /\ calc.dist = LeadingZeroBits(calc.a, calc.b)
       /\ ~calc.overflow
       /\ calc.dist \in 0..255

\* the keys differ in the last bit only
C5_Witness == calc.done /\ calc.dist = 255

(***************************************************************************)
(* Properties of process_find_node.                                        *)
(***************************************************************************)
\* a is strictly closer to t than b: a XOR t < b XOR t as 256-bit numbers
Closer(a, b, t) ==
    \E i \in 1..KeyLen :
       /\ Xor8(a[i], t[i]) < Xor8(b[i], t[i])
       /\ \A j \in 1..(i - 1) : Xor8(a[j], t[j]) = Xor8(b[j], t[j])

SortedByDistance(nodes, t) ==
    \A i, j \in 1..Len(nodes) :
       i < j => ~Closer(KeyData[nodes[j].id], KeyData[nodes[i].id], t)

\* C6: the list returned for FindNode{key, k} has at most k peers and is
\* sorted by non-decreasing XOR distance to key, peers of one bucket included.
C6_FindNodeSorted ==
    [][\A key \in FindNodeKeys, k \in 0..MaxK :
          ProcessFindNode(key, k)
          => /\ Len(reply'.nodes) <= k
             /\ SortedByDistance(reply'.nodes, key)]_vars

\* C7: process_find_node returns fewer than k peers only if its result
\* holds every peer of the routing table.
C7_FindNodeExhaustive ==
    [][\A key \in FindNodeKeys, k \in 0..MaxK :
          (ProcessFindNode(key, k) /\ Len(reply'.nodes) < k)
          => \A id \in TableKeys :
                \E i \in 1..Len(reply'.nodes) : reply'.nodes[i].id = id]_vars

(***************************************************************************)
(* Properties of the storage.                                              *)
(***************************************************************************)
\* FindValue and fetch_address serve a value exactly while it is fresh
\* (FindValue{k = 0} on a key that is not served fails in get_known_nodes,
\* and fetch_address fails on a fresh value that is not an address list)
ServedOnlyWhileFresh ==
    [][/\ \A h \in QueryHashes, k \in 0..MaxK :
             ProcessFindValue(h, k)
             => IF h \in DOMAIN storage /\ storage[h].ttl > now
                THEN reply' = [kind |-> "ValueFound", value |-> storage[h]]
                ELSE reply'.kind \in {"ValueNotFound", "Error"}
       /\ \A id \in {ShortId(PubEd), ShortId(PubOverlay)} :
             FetchAddress(id)
             => LET h == Hash(DhtKeyFromKeyId(id, "address")) IN
                IF h \in DOMAIN storage /\ storage[h].ttl > now
                THEN reply'.kind \in {"Address", "Error"}
                ELSE reply'.kind = "Absent"]_vars

\* C8: a stored value is served only while fresh, and once a value has
\* expired (ttl <= now) a later Store of the same hash with a future ttl
\* makes the hash readable again: after an inbound Store{value} with
\* value.ttl > now that is answered Stored, on a hash whose stored value has
\* ttl <= now, search_dht_key finds a value under that hash.
C8_StoreMakesReadableAgain ==
    [][reply'.kind = "Stored" =>
          \A value \in StoreValues :
             LET h == Hash(value.key.key) IN
             (/\ value.ttl > now
              /\ h \in DOMAIN storage
              /\ storage[h].ttl <= now
              /\ ProcessStore(value))
             => SearchDhtKey(storage', h, now').some]_vars

Max2(a, b) == IF a >= b THEN a ELSE b

\* C9: process_store_signed_value inserts when the hash is absent, replaces
\* the stored value only when the incoming ttl is strictly greater, and
\* changes nothing otherwise, so that the stored ttl is the maximum of the
\* ttl stored before and the ttl of the verified store (in every reachable
\* state of the storage, for every value that verifies).
C9_SignedStoreTtlMonotonic ==
    \A value \in StoreValues :
       (/\ value.key.update_rule = "Signature"
        /\ value.key.id.type = "Ed25519"
        /\ value.key.signature = "valid" /\ value.signature = "valid")
       => LET h == Hash(value.key.key)
              out == ProcessStoreSignedValue(storage, h, value)
          IN /\ h \in DOMAIN out.storage
             /\ DOMAIN out.storage = (DOMAIN storage) \cup {h}
             /\ \A g \in (DOMAIN storage) \ {h} : out.storage[g] = storage[g]
             /\ IF h \notin DOMAIN storage
                THEN out.storage[h] = value /\ out.ret = "true"
                ELSE /\ out.storage[h].ttl = Max2(storage[h].ttl, value.ttl)
                     /\ IF value.ttl > storage[h].ttl
                        THEN out.storage[h] = value /\ out.ret = "true"
                        ELSE out.storage = storage /\ out.ret = "false"

\* a signed value of the greatest ttl is stored after the clock has moved
C9_Witness ==
    /\ Hash(KeyAddress) \in DOMAIN storage
    /\ storage[Hash(KeyAddress)].key.update_rule = "Signature"
    /\ storage[Hash(KeyAddress)].ttl = MaxTtl
    /\ now >= 1
    /\ reply.kind = "Stored"

\* the rejections of an inbound Store, as the specification lists them
StoreRejected(value, t) ==
    \/ value.ttl <= t
    \/ value.key.update_rule \notin {"Signature", "OverlayNodes"}
    \/ /\ value.key.update_rule = "Signature"
       /\ (value.key.signature # "valid" \/ value.signature # "valid")
    \/ /\ value.key.update_rule = "OverlayNodes"
       /\ \/ value.signature # "empty"
          \/ value.key.signature # "empty"
          \/ value.key.id.type # "Overlay"
          \/ value.key.key # [id |-> ShortId(value.key.id), idx |-> 0,
                              name |-> "nodes"]
          \/ \A i \in 1..Len(value.value.nodes) : ~value.value.nodes[i].ok

\* C10: an inbound Store that is rejected (expired ttl, unsupported update
\* rule, failed verification of the payload) returns an error, and a Store
\* that returns an error leaves the storage unchanged (in every reachable
\* state, for every Store{value}).
C10_RejectedStoreNoEffect ==
    \A value \in StoreValues :
       LET out == ProcessStoreOutcome(storage, value, now) IN
       /\ StoreRejected(value, now) => out.ret = "error"
       /\ out.ret = "error" => out.storage = storage

\* a Store has been rejected while the storage holds values
C10_Witness ==
    /\ reply = [kind |-> "Error", op |-> "Store"]
    /\ storage # EmptyMap
    /\ now >= 1

(***************************************************************************)
(* Properties of concurrent stores.                                        *)
(***************************************************************************)
\* C11: concurrent Store handlers on one hash serialize: the step in which a
\* handler compares and replaces under the entry guard changes the storage
\* exactly as the whole store applied at that moment to the storage would,
\* so that the final storage is that of the stores applied one after the
\* other in the order of these steps; and after a Signature store the stored
\* ttl is the maximum of the ttl stored before and the ttl of the store.
C11_ConcurrentStoresSerialize ==
    [][\A p \in Procs :
          StoreReplace(p)
          => LET value == task[p].value
                 h == Hash(value.key.key)
                 atomic == IF value.key.update_rule = "Signature"
                           THEN ProcessStoreSignedValue(storage, h, value)
                           ELSE ProcessStoreOverlayNodes(storage, h, value,
                                                         now)
             IN /\ storage' = atomic.storage
                /\ value.key.update_rule = "Signature"
                   => storage'[h].ttl =
                         IF h \in DOMAIN storage
                         THEN Max2(storage[h].ttl, value.ttl)
                         ELSE value.ttl]_vars

\* a handler holds the guard of an entry it found occupied, while the other
\* handler waits for the same entry with a different value
C11_Witness ==
    \E p, q \in Procs :
       /\ task[p].pc = "guard" /\ task[p].old.some
       /\ task[q].pc = "entry"
       /\ Hash(task[q].value.key.key) = Hash(task[p].value.key.key)
       /\ task[q].value # task[p].value

(***************************************************************************)
(* Properties of the overlay-node lists.                                   *)
(***************************************************************************)
NoRepeatedId(nodes) ==
    \A i, j \in 1..Len(nodes) : nodes[i].id = nodes[j].id => i = j

\* C12: after any sequence of process_store_overlay_nodes calls (the lists
\* of the calls may repeat an id) no stored overlay-node list has two entries
\* with the same id.
C12_NoRepeatedIdStored ==
    \A h \in DOMAIN storage :
       storage[h].value.type = "OverlayNodes"
       => NoRepeatedId(storage[h].value.nodes)

\* the stored list has two entries, one of them replaced by a newer version,
\* and a list that repeats an id is accepted by the next call
C12_Witness ==
    /\ Hash(KeyNodes) \in DOMAIN storage
    /\ Len(storage[Hash(KeyNodes)].value.nodes) = 2
    /\ \E i \in 1..2 : storage[Hash(KeyNodes)].value.nodes[i].version = 2
    /\ reply.kind = "Stored"
    /\ \E value \in OverlayStoreValues :
          /\ ~NoRepeatedId(PopValid(value.value.nodes, <<>>))
          /\ ProcessStoreOutcome(storage, value, now).ret = "true"

\* C13: after process_store_overlay_nodes calls on a hash, the version
\* stored for an id is the maximum version of that id among the valid nodes
\* submitted in those calls: after a call that passed the checks of its
\* value, no valid node of the call has a version above the one stored for
\* its id.
C13_StoredVersionIsMaxSubmitted ==
    \A value \in OverlayStoreValues :
       LET h == Hash(value.key.key)
           out == ProcessStoreOutcome(storage, value, now)
           nodes == PopValid(value.value.nodes, <<>>)
       IN (out.ret # "error" /\ h \in DOMAIN out.storage)
          => \A i \in 1..Len(nodes) :
                \A j \in 1..Len(out.storage[h].value.nodes) :
                   out.storage[h].value.nodes[j].id = nodes[i].id
                   => out.storage[h].value.nodes[j].version
                         >= nodes[i].version

\* C14: no overlay node that fails the overlay-node verification is in a
\* list stored by process_store_overlay_nodes, whatever Store queries of
\* either update rule touched the hash before.
C14_StoredNodesVerify ==
    \A h \in DOMAIN storage :
       (/\ storage[h].key.update_rule = "OverlayNodes"
        /\ storage[h].value.type = "OverlayNodes")
       => \A i \in 1..Len(storage[h].value.nodes) :
             storage[h].value.nodes[i].ok

\* the incoming node that has the id of the stored node, if there is one
IncomingFor(nodes, old_node) ==
    IF \E i \in 1..Len(nodes) : nodes[i].id = old_node.id
    THEN nodes[CHOOSE i \in 1..Len(nodes) : nodes[i].id = old_node.id]
    ELSE old_node

\* C15: the merge of an OverlayNodes store into a fresh stored list.  If an
\* incoming valid node has an id stored with an equal or greater version the
\* store returns false and changes nothing, whatever its other nodes are.
\* Otherwise (the incoming ttl not below the stored one, no id twice in the
\* incoming list) the store returns true, every stored node with an incoming
\* id is replaced in place by the incoming node, the other stored nodes stay,
\* and the incoming nodes with new ids are appended.
C15_MergeRule ==
    \A value \in OverlayStoreValues :
       LET h == Hash(value.key.key)
           out == ProcessStoreOutcome(storage, value, now)
           nodes == PopValid(value.value.nodes, <<>>)
       IN (/\ StorePreCheckOk(value, now)
           /\ h \in DOMAIN storage
           /\ storage[h].ttl > now
           /\ storage[h].value.type = "OverlayNodes")
          => LET old == storage[h].value.nodes
                 stale == \E i \in 1..Len(nodes), j \in 1..Len(old) :
                             /\ old[j].id = nodes[i].id
                             /\ old[j].version >= nodes[i].version
                 fresh == {i \in 1..Len(nodes) :
                             \A j \in 1..Len(old) : old[j].id # nodes[i].id}
             IN /\ stale => (out.ret = "false" /\ out.storage = storage)
                /\ (/\ ~stale
                    /\ NoRepeatedId(nodes)
                    /\ storage[h].ttl <= value.ttl)
                   => LET new == out.storage[h].value.nodes IN
                      /\ out.ret = "true"
                      /\ out.storage[h].ttl = value.ttl
                      /\ Len(new) = Len(old) + Cardinality(fresh)
                      /\ \A j \in 1..Len(old) :
                            new[j] = IncomingFor(nodes, old[j])
                      /\ {new[j] : j \in (Len(old) + 1)..Len(new)}
                            = {nodes[i] : i \in fresh}

\* after the stores [X v1] and [X v2, Y v1] the list is {X v2, Y v1}, and a
\* store [X v1] returns false
C15_Witness ==
    /\ Hash(KeyNodes) \in DOMAIN storage
    /\ storage[Hash(KeyNodes)].ttl > now
    /\ storage[Hash(KeyNodes)].value.nodes
          = <<[id |-> "X", version |-> 2, ok |-> TRUE],
              [id |-> "Y", version |-> 1, ok |-> TRUE]>>
    /\ ProcessStoreOutcome(
          storage,
          DhtValueOf(PubOverlay, KeyNodes, "empty", "OverlayNodes",
                     NodesPayload(<<[id |-> "X", version |-> 1,
                                     ok |-> TRUE]>>), MaxTtl, "empty"),
          now).ret = "false"

(***************************************************************************)
(* Properties of the inbound dispatch.                                     *)
(***************************************************************************)
\* C16: handling a solo Ping, FindNode, FindValue or GetSignedAddressList
\* leaves the buckets, the known-peer cache and the storage unchanged, and a
\* Ping is answered by a Pong with the same random_id.
C16_ReadQueriesChangeNothing ==
    [][UNCHANGED task =>
          \A q \in SoloQueries :
             (/\ q.type \in {"Ping", "FindNode", "FindValue",
                             "GetSignedAddressList"}
              /\ TryConsumeQuery(q))
             => /\ UNCHANGED <<buckets, known_peers, storage>>
                /\ q.type = "Ping"
                   => reply' = [kind |-> "Pong",
                                random_id |-> q.random_id]]_vars

\* a Ping has been answered while the routing table, the cache and the
\* storage hold entries
C16_Witness ==
    /\ reply.kind = "Pong" /\ reply.random_id = 9
    /\ TableKeys # {}
    /\ known_peers # <<>>
    /\ storage # EmptyMap

\* C17: a bundle whose length is not 2, or whose first message is not a
\* Query envelope, is answered RejectedBundle with its messages complete and
\* in their order, and the routing table, the known-peer cache and the
\* storage are unchanged.
C17_RejectedBundleNoEffect ==
    [][\A p \in Procs :
          (/\ ConsumeQueryBundle(p)
           /\ \/ Len(task[p].objects) # 2
              \/ task[p].objects[1].type # "Query")
          => /\ reply' = [kind |-> "RejectedBundle",
                          objects |-> task[p].objects]
             /\ UNCHANGED <<buckets, known_peers, storage>>]_vars

\* a bundle of two messages has been rejected for its first message; its
\* second message is the envelope of a peer that is not in the routing table
C17_Witness ==
    /\ reply.kind = "RejectedBundle"
    /\ Len(reply.objects) = 2
    /\ reply.objects[2].type = "Query"
    /\ ~InTable(buckets, reply.objects[2].node.id)
    /\ storage # EmptyMap

\* the queries try_consume_query handles
Supported(q) ==
    q.type \in {"Ping", "FindNode", "FindValue", "GetSignedAddressList",
                "Store"}

\* C18: for a bundle [Query{node = peer}, q], peer a verifiable descriptor of
\* a peer that is not yet known and q a supported query, the peer is in the
\* routing table before q is processed, and the reply is one q gets as a
\* solo query (with the effect on the storage of the solo query).
C18_BundleAddsPeerThenQuery ==
    [][\A p \in Procs :
          /\ (/\ ConsumeQueryBundle(p)
              /\ Len(task[p].objects) = 2
              /\ task[p].objects[1].type = "Query"
              /\ VerifyOtherNode(task[p].objects[1].node)
              /\ ParseAddressListOk(task[p].objects[1].node)
              /\ task[p].objects[1].node.id # LocalId
              /\ \A i \in 1..Len(known_peers) :
                    known_peers[i] # task[p].objects[1].node.id
              /\ Supported(task[p].objects[2]))
             => /\ InTable(buckets', task[p].objects[1].node.id)
                /\ TableNode(buckets', task[p].objects[1].node.id)
                      = task[p].objects[1].node
                /\ task'[p].pc = "query"
                /\ task'[p].query = task[p].objects[2]
                /\ UNCHANGED <<reply, storage>>
          /\ (BundleQuery(p) /\ Supported(task[p].query))
             => \E o \in QueryOutcomes(task[p].query, buckets, storage,
                                       now) :
                   /\ o.reply.kind # "Rejected"
                   /\ reply' = o.reply
                   /\ storage' = o.storage
                   /\ UNCHANGED <<buckets, known_peers>>]_vars

\* the sender of a bundle has been added to the routing table, and the
\* FindNode of the bundle for the key-id of that sender is about to be
\* processed
C18_Witness ==
    \E p \in Procs :
       /\ task[p].pc = "query"
       /\ task[p].query.type = "FindNode"
       /\ task[p].query.k > 0
       /\ task[p].query.key = KeyData[task[p].peer.id]
       /\ InTable(buckets, task[p].peer.id)
       /\ Cardinality(TableKeys) = 2

(***************************************************************************)
(* Properties of find_value.                                               *)
(***************************************************************************)
\* C19: in every state of a find_value session the number of outstanding
\* peer queries (registered with the wait-group, not yet consumed by the
\* drain) is at most MAX_TASKS, for all = false and all = true and however
\* the cache grows.
C19_OutstandingAtMostMaxTasks ==
    fv.pc # "idle" =>
       /\ fv.count <= MAX_TASKS
       /\ fv.count = fv.running + Len(fv.queue)

\* MAX_TASKS queries are outstanding again after a value has been drained
\* and a further peer of the cache has been queried
C19_Witness ==
    /\ fv.pc = "wait"
    /\ fv.all
    /\ fv.count = MAX_TASKS
    /\ fv.ret >= 1
    /\ fv.iter > MAX_TASKS
    /\ fv.iter = Len(known_peers)

\* C20: find_value returns at most one value for all = false and at most
\* MAX_TASKS values for all = true.
C20_ResultsBounded ==
    fv.pc = "done" =>
       fv.ret <= (IF fv.all THEN MAX_TASKS ELSE 1)

C22_CursorResumesExactly ==
    fv.pc # "idle" =>
       /\ fv.requeried = {}
       /\ \A i \in 0..(fv.iter - 1) : i \in fv.queried

(***************************************************************************)
(* Properties of the outbound queries and of store_value.                  *)
(***************************************************************************)
\* C23: every outbound query other than a ping (FindNode, FindValue,
\* GetSignedAddressList, Store) is handed to the transport behind the
\* envelope dht.query{node} that the constructor serialized.
C23_OutboundQueriesPrefixed ==
    (sent # NoSent /\ sent.objects[Len(sent.objects)].type # "Ping") =>
       /\ Len(sent.objects) = 2
       /\ sent.objects[1].type = "Query"
       /\ sent.objects[1].node = SignLocalNode(0)

\* C24: the read-back find_value of a round of store_value runs only when
\* every Store query spawned in the round has ended and its response has been
\* drained from the wait-group.
C24_ReadBackAfterStoresDrained ==
    /\ sv.pc = "readback" =>
          /\ sv.count = 0
          /\ sv.running = 0
          /\ sv.queue = <<>>
    /\ (sv.pc # "idle" /\ fv.pc \notin {"idle", "kept"}) => sv.pc = "readback"

\* the read-back of a second round is querying peers, after Store queries of
\* two rounds
C24_Witness ==
    /\ sv.pc = "readback"
    /\ sv.rounds = 2
    /\ sv.iter >= 3
    /\ fv.pc = "wait"
    /\ fv.count >= 2

\* C25: store_value returns true exactly when check_vals returned true on the
\* values read back in some round; it returns false exactly when the cursor
\* yields no further peer, at the start or after a round that was not
\* verified; with an empty cache at the start it returns false at once, no
\* Store and no FindValue query is sent, and the value is in the local
\* storage.
C25_StoreValueResult ==
    [][(sv.pc # "returned" /\ sv'.pc = "returned") =>
          /\ (sv'.result = "true") = (sv.pc = "readback" /\ sv'.verified)
          /\ (sv'.result = "false")
                = (/\ ~sv'.verified
                   /\ sv'.result # "error"
                   /\ ~PeerAt(known_peers, sv'.iter))
          /\ (sv.pc = "idle" /\ sv'.result = "false") => known_peers = <<>>
          /\ (sv.pc = "idle" /\ known_peers = <<>> /\ sv'.result # "error")
                => /\ sv'.result = "false"
                   /\ sv'.iter = 0
                   /\ sv'.rounds = 0
                   /\ UNCHANGED <<sent, fv>>
                   /\ Hash(sv'.value.key.key) \in DOMAIN storage']_vars

\* store_value has returned true after a first round that was not verified
C25_Witness ==
    /\ sv.pc = "returned"
    /\ sv.result = "true"
    /\ sv.rounds = 2

\* C26: a value_query that ends in an error (transport error, unparsable
\* answer, undeserializable value, failed add_peer) puts an absent response
\* into the wait-group like a peer without answer does: the task is over,
\* its response is there to be drained, and the session goes on with the
\* values it has.
C26_PeerErrorsBecomeAbsent ==
    [][\A outcome \in ValueQueryOutcomes :
          (ValueQuery(outcome) = "error" /\ FvRespond(outcome)) =>
             /\ fv'.queue = Append(fv.queue, FALSE)
             /\ fv'.running = fv.running - 1
             /\ fv'.count = fv'.running + Len(fv'.queue)
             /\ fv'.pc = fv.pc
             /\ fv'.ret = fv.ret]_vars

\* find_value returns values although a query of the session failed, with
\* nothing left in the wait-group
C26_Witness ==
    /\ fv.pc = "done"
    /\ fv.failed
    /\ fv.all
    /\ fv.ret >= 2
    /\ fv.count = 0

C28_ExpiredEntryIsAbsent ==
    \A value \in OverlayStoreValues :
       LET h == Hash(value.key.key)
           without == [x \in (DOMAIN storage) \ {h} |-> storage[x]]
           out == ProcessStoreOutcome(storage, value, now)
           ref == ProcessStoreOutcome(without, value, now)
       IN (h \in DOMAIN storage /\ storage[h].ttl <= now) =>
             /\ out.ret = ref.ret
             /\ out.ret = "true" => out.storage[h] = ref.storage[h]

\* C29: a message that is none of the queries of the DHT changes nothing:
\* sent solo it is answered Rejected with the message, and as the second
\* message of a bundle of an envelope and a message its handling fails; in
\* both cases the routing table, the known-peer cache and the storage stay
\* as they were when it arrived.
C29_UnknownMessageNoEffect ==
    [][/\ TryConsumeQuery(OtherObject) =>
             /\ reply' = [kind |-> "Rejected", object |-> OtherObject]
             /\ UNCHANGED <<buckets, known_peers, storage>>
       /\ \A p \in Procs :
             (/\ ConsumeQueryBundle(p)
              /\ Len(task[p].objects) = 2
              /\ task[p].objects[1].type = "Query"
              /\ ~Supported(task[p].objects[2]))
             => UNCHANGED <<buckets, known_peers, storage>>
       /\ \A p \in Procs :
             (BundleQuery(p) /\ ~Supported(task[p].query))
             => /\ reply' = [kind |-> "Error", op |-> "Bundle"]
                /\ UNCHANGED <<buckets, known_peers, storage>>]_vars

\* C30: whatever Store operations run, local or inbound, of either update
\* rule and however interleaved, no hash leaves the storage map and the ttl
\* stored under a hash never gets smaller.
C30_StorageGrowsTtlMonotone ==
    [][/\ DOMAIN storage \subseteq DOMAIN storage'
       /\ \A h \in DOMAIN storage : storage'[h].ttl >= storage[h].ttl]_vars

=============================================================================
